---- MODULE Spec2Model ----
(***************************************************************************)
(* FinTrack: the client-side transaction table (FinTrackTable), the store  *)
(* it shares with App (tableData), the CSV import box (EnhancedFileUpload) *)
(* and the backend REST service they call.                                 *)
(*                                                                         *)
(* Strings are sequences of character codes, so that toLowerCase,         *)
(* includes, endsWith and the relational operator < on strings are         *)
(* computed the way JavaScript computes them.  A calendar date held as an  *)
(* ISO 'yyyy-mm-dd' string is its day number (fixed-width ISO strings      *)
(* compare like their day numbers); a JavaScript Date object is its time   *)
(* value in hours since the epoch.                                         *)
(***************************************************************************)
EXTENDS Integers, Sequences, FiniteSets, TLC

VARIABLES
    tableData,       \* App: const [tableData, setTableData] = useState([])
    backend,         \* the Transaction Service's ordered record list
    sortConfig,      \* FinTrackTable: { key, direction }
    searchTerm,      \* FinTrackTable: search input
    dateRange,       \* FinTrackTable: { start, end }
    newTransaction,  \* FinTrackTable: the add-row form
    file,            \* EnhancedFileUpload: selected file
    uploadProgress,  \* EnhancedFileUpload: progress percentage
    isError,         \* EnhancedFileUpload: error flag
    inflight,        \* HTTP calls awaiting their continuation
    tz,              \* the browser's offset from UTC, in hours east
    last,            \* history: the handler or continuation that ran last
    chartData,       \* PieChart: labels, data and colours handed to the Doughnut
    limit,           \* SpendingLimit: the limit
    spent,           \* SpendingLimit: the amount spent
    loading,         \* SpendingLimit: no poll has completed yet
    polls,           \* SpendingLimit: fetches awaiting their continuation
    lastPoll,        \* history: the step of SpendingLimit that ran last
    mounted,         \* SpendingLimit: the component is in the view tree
    interval,        \* SpendingLimit: the timer of setInterval, "running" or "cleared"
    messages,        \* ChatBot: the messages shown, oldest first
    input,           \* ChatBot: the text in the input
    isLoading,       \* ChatBot: a question awaits its reply
    chatCall,        \* ChatBot: the POST /chat in flight, if any
    lastChat         \* history: the step of ChatBot that ran last

\* the state of SpendingLimit
gauge == <<limit, spent, loading, polls, lastPoll, mounted, interval>>

\* the state of ChatBot
chat == <<messages, input, isLoading, chatCall, lastChat>>

vars == <<tableData, backend, sortConfig, searchTerm, dateRange,
          newTransaction, file, uploadProgress, isError, inflight, tz, last,
          chartData, gauge, chat>>

-----------------------------------------------------------------------------
(* Bounds of the model *)

MaxStore == 2
MaxInflight == 2
MaxSorted == 3
MaxChart == 3
MaxPolls == 2
MaxMessages == 4

-----------------------------------------------------------------------------
(* Strings *)

\* ''
Empty == << >>

\* String.prototype.toLowerCase, on ASCII letters
ToLowerCase(s) == [i \in 1..Len(s) |-> IF s[i] >= 65 /\ s[i] <= 90 THEN s[i] + 32 ELSE s[i]]

\* String.prototype.includes
Includes(s, t) == \E i \in 1..(Len(s) + 1) :
                     /\ i + Len(t) - 1 <= Len(s)
                     /\ SubSeq(s, i, i + Len(t) - 1) = t

\* String.prototype.endsWith
EndsWith(s, t) == /\ Len(t) <= Len(s)
                  /\ SubSeq(s, Len(s) - Len(t) + 1, Len(s)) = t

\* s < t on two strings: code-unit lexicographic order
RECURSIVE StrLess(_, _)
StrLess(s, t) ==
    IF t = << >> THEN FALSE
    ELSE IF s = << >> THEN TRUE
    ELSE IF Head(s) # Head(t) THEN Head(s) < Head(t)
    ELSE StrLess(Tail(s), Tail(t))

\* Number(s) for a decimal integer literal, as <input type="number"> yields
RECURSIVE Digits(_, _)
Digits(s, acc) == IF s = << >> THEN acc ELSE Digits(Tail(s), acc * 10 + (Head(s) - 48))

ToNumber(s) == IF s = << >> THEN 0
               ELSE IF Head(s) = 45 THEN 0 - Digits(Tail(s), 0)
               ELSE Digits(s, 0)

-----------------------------------------------------------------------------
(* Values of the Amount and Balance fields: a JSON number from the backend, *)
(* or the string an input element holds.                                    *)

Num(n) == [t |-> "number", n |-> n, s |-> Empty]
Str(s) == [t |-> "string", n |-> 0, s |-> s]

\* the numeric value JavaScript gives the field in arithmetic and in a
\* comparison with a number
NumberOf(v) == IF v.t = "number" THEN v.n ELSE ToNumber(v.s)

\* a < b of the Abstract Relational Comparison: two strings are compared as
\* strings, anything else as numbers
ValueLess(a, b) == IF a.t = "string" /\ b.t = "string"
                   THEN StrLess(a.s, b.s)
                   ELSE NumberOf(a) < NumberOf(b)

\* !v
Falsy(v) == IF v.t = "string" THEN v.s = Empty ELSE v.n = 0

-----------------------------------------------------------------------------
(* Dates *)

\* null, where a Date object or a sort key may stand
Null == -1

\* new Date('yyyy-mm-dd'): a date-only ISO string is UTC midnight of its day
NewDate(day) == day * 24

\* the Date object a DatePicker yields for a picked day: local midnight
PickedDate(day) == day * 24 - tz

\* date.toISOString().split('T')[0]: the UTC calendar day of a time value
ToISODate(time) == time \div 24

-----------------------------------------------------------------------------
(* Transaction records *)

Rec(date, description, amount, balance, category) ==
    [Date |-> date, Description |-> description, Amount |-> amount,
     Balance |-> balance, Category |-> category]

\* a[key] < b[key] for the three sortable columns
KeyLess(key, a, b) ==
    CASE key = "Date"     -> a.Date < b.Date
      [] key = "Amount"   -> ValueLess(a.Amount, b.Amount)
      [] key = "Category" -> StrLess(a.Category, b.Category)

\* the comparison function handleSort passes to Array.prototype.sort
Compare(key, direction, a, b) ==
    IF KeyLess(key, a, b) THEN (IF direction = "asc" THEN -1 ELSE 1)
    ELSE IF KeyLess(key, b, a) THEN (IF direction = "asc" THEN 1 ELSE -1)
    ELSE 0

\* ECMAScript's "consistent comparison function" for the values of a list:
\* a =CF b and a <CF b are symmetric resp. antisymmetric, and =CF, <CF and
\* >CF are transitive
ConsistentOn(key, direction, data) ==
    LET S  == {data[i] : i \in 1..Len(data)}
        lt == {p \in S \X S : Compare(key, direction, p[1], p[2]) < 0}
        gt == {p \in S \X S : Compare(key, direction, p[1], p[2]) > 0}
        eq == (S \X S) \ (lt \cup gt)
    IN  /\ \A p \in eq : <<p[2], p[1]>> \in eq
        /\ \A p \in lt : <<p[2], p[1]>> \in gt
        /\ \A p \in eq, q \in eq : p[2] = q[1] => <<p[1], q[2]>> \in eq
        /\ \A p \in lt, q \in lt : p[2] = q[1] => <<p[1], q[2]>> \in lt
        /\ \A p \in gt, q \in gt : p[2] = q[1] => <<p[1], q[2]>> \in gt

\* the values under key are all strings or all numbers; < then is the order
\* of strings or of numbers, and the comparison function is consistent
OneType(key, data) ==
    key = "Amount" => \A i, j \in 1..Len(data) : data[i].Amount.t = data[j].Amount.t

Consistent(key, direction, data) ==
    OneType(key, data) \/ ConsistentOn(key, direction, data)

\* x put into a sorted list behind every element that does not follow it
RECURSIVE InsertStable(_, _, _, _)
InsertStable(key, direction, sorted, x) ==
    IF sorted = << >> THEN <<x>>
    ELSE IF Compare(key, direction, x, Head(sorted)) < 0 THEN <<x>> \o sorted
    ELSE <<Head(sorted)>> \o InsertStable(key, direction, Tail(sorted), x)

RECURSIVE StableSortFrom(_, _, _, _)
StableSortFrom(key, direction, sorted, rest) ==
    IF rest = << >> THEN sorted
    ELSE StableSortFrom(key, direction,
                        InsertStable(key, direction, sorted, Head(rest)), Tail(rest))

Rearrangements(data) ==
    LET n == Len(data)
    IN  {[i \in 1..n |-> data[p[i]]] :
            p \in {q \in [1..n -> 1..n] : \A i, j \in 1..n : q[i] = q[j] => i = j}}

\* [...data].sort(compare): the stable sort when the comparison function is
\* consistent; an implementation-defined order of the same elements when not
SortOutcomes(key, direction, data) ==
    IF Consistent(key, direction, data)
    THEN {StableSortFrom(key, direction, << >>, data)}
    ELSE Rearrangements(data)

-----------------------------------------------------------------------------
(* filterData *)

\* the search-term test of filterData
MatchesSearch(r, term) ==
    term # Empty => Includes(ToLowerCase(r.Description), ToLowerCase(term))

\* the date-range test of filterData
MatchesDates(r, range) ==
    (range.start # Null /\ range.end # Null) =>
        (NewDate(r.Date) >= range.start /\ NewDate(r.Date) <= range.end)

Passes(r, term, range) == MatchesSearch(r, term) /\ MatchesDates(r, range)

FilterData(data, term, range) ==
    SelectSeq(data, LAMBDA r : Passes(r, term, range))

\* a Description that is null or absent: no string has this code
NoText == <<Null>>

\* transaction.Description.toLowerCase() raises a TypeError where the
\* description is null or absent; it is evaluated only under a search term
Raises(transaction, term) == term # Empty /\ transaction.Description = NoText

\* filterData() as the render calls it: it raises, or it yields the rows
FilterOutcome(data, term, range) ==
    IF \E i \in 1..Len(data) : Raises(data[i], term)
    THEN [raised |-> TRUE, rows |-> << >>]
    ELSE [raised |-> FALSE, rows |-> FilterData(data, term, range)]

\* for each row filterData() yields, in order, the 0-based position in data
\* of the record the row shows
RowPositions(data, term, range) ==
    SelectSeq([i \in 1..Len(data) |-> i - 1],
              LAMBDA p : Passes(data[p + 1], term, range))

-----------------------------------------------------------------------------
(* The values the model draws its inputs from *)

Coffee    == <<67, 111, 102, 102, 101, 101>>          \* "Coffee"
Rent      == <<82, 101, 110, 116>>                    \* "Rent"
Tea       == <<84, 101, 97>>                          \* "Tea"
Food      == <<70, 111, 111, 100>>                    \* "Food"
Home      == <<72, 111, 109, 101>>                    \* "Home"
UpCof     == <<67, 79, 70>>                           \* "COF"
Ten       == <<49, 48>>                               \* "10"
Nine      == <<57>>                                   \* "9"
Seven     == <<55>>                                   \* "7"
Hundred   == <<49, 48, 48>>                           \* "100"
MinusFive == <<45, 53>>                               \* "-5"
MinusEighty == <<45, 56, 48>>                         \* "-80"
TwelveHundred == <<49, 50, 48, 48>>                   \* "1200"
DotCsv    == <<46, 99, 115, 118>>                     \* ".csv"
Csv       == <<99, 115, 118>>                         \* "csv"

\* records the backend may hold when the page is opened
R1 == Rec(1,  Coffee, Num(-5),    Num(100),  Food)
R2 == Rec(32, Coffee, Num(-5),    Num(95),   Food)
R3 == Rec(15, Rent,   Num(-1000), Num(1100), Home)
BackendRecords == {R1, R2, R3}

RECURSIVE SeqsUpTo(_, _)
SeqsUpTo(S, n) ==
    IF n = 0 THEN {<< >>}
    ELSE LET shorter == SeqsUpTo(S, n - 1)
         IN  shorter \cup {Append(q, x) : q \in {r \in shorter : Len(r) = n - 1}, x \in S}

TimeZones    == {-5, 0, 1}
SearchTerms  == {Empty, UpCof}
SortKeys     == {"Date", "Amount", "Category"}
Statuses     == {200, 204}

-----------------------------------------------------------------------------
(* HTTP calls in flight.  A call is "sent" until the backend has served it  *)
(* ("ok", with a status and a body) or it has failed ("error": a transport  *)
(* failure or a non-2xx answer, on which axios rejects).  row is not part   *)
(* of the call: for a delete it records the store position of the record    *)
(* shown in the clicked row.                                                 *)

NoBody == Rec(Null, Empty, Str(Empty), Str(Empty), Empty)
NoFile == [name |-> Empty, type |-> Empty, rows |-> << >>]

Call(kind, from, index, row, body, upload) ==
    [kind |-> kind, from |-> from, index |-> index, row |-> row, body |-> body,
     upload |-> upload, stage |-> "sent", status |-> 0, data |-> << >>]

GetData(from)         == Call("get", from, Null, Null, NoBody, NoFile)
DeleteCall(index, row) == Call("delete", "FinTrackTable", index, row, NoBody, NoFile)
AddCall(body)         == Call("add", "FinTrackTable", Null, Null, body, NoFile)
UploadCall(f)         == Call("upload", "EnhancedFileUpload", Null, Null, NoBody, f)

Without(q, i) == SubSeq(q, 1, i - 1) \o SubSeq(q, i + 1, Len(q))

Answered(i) == i \in 1..Len(inflight) /\ inflight[i].stage # "sent"

NoCall == Call("none", "none", Null, Null, NoBody, NoFile)

\* the continuation of the call tells the user of its outcome: the alert of
\* the catch blocks of FinTrackTable, the error message of the upload box
\* (App.fetchData's catch block only logs)
Reported(call) ==
    \/ call.stage = "error" /\ call.kind \in {"add", "delete"}
    \/ call.stage = "error" /\ call.kind = "get" /\ call.from # "App"
    \/ call.kind = "upload" /\ (call.stage = "error" \/ (call.stage = "ok" /\ call.status # 200))

\* the continuation of the call writes console.error: every catch block but
\* the upload box's
Logged(call) == call.stage = "error" /\ call.kind \in {"get", "add", "delete"}

\* history of a step of op, a handler or the continuation of call: the store,
\* the form and the sort state it found, whether it sent a call, and what
\* the continuation of a call told the user and the console
Did(op, call) ==
    last' = [op |-> op, call |-> call, data |-> tableData, form |-> newTransaction,
             config |-> sortConfig, sent |-> Len(inflight') > Len(inflight),
             reported |-> Reported(call), logged |-> Logged(call)]

\* history of handleFileSelection: the file it was handed
DidSelect(selectedFile) ==
    last' = [op |-> "handleFileSelection", call |-> UploadCall(selectedFile),
             data |-> tableData, form |-> newTransaction, config |-> sortConfig,
             sent |-> Len(inflight') > Len(inflight),
             reported |-> FALSE, logged |-> FALSE]

\* history of a step that is no handler of a claim: typing, picking, the network
Quiet ==
    last' = [op |-> "none", call |-> NoCall, data |-> tableData', form |-> newTransaction',
             config |-> sortConfig', sent |-> FALSE,
               reported |-> FALSE, logged |-> FALSE]

-----------------------------------------------------------------------------
(* PieChart: processData, the Category Aggregator *)

\* COLORS: six colours, listed twice
COLORS ==
    <<"#FF6384", "#36A2EB", "#FFCE56", "#4BC0C0", "#9966FF", "#FF9F40",
      "#FF6384", "#36A2EB", "#FFCE56", "#4BC0C0", "#9966FF", "#FF9F40">>

\* the argument of processData: a list, or undefined
Given(list) == [defined |-> TRUE, list |-> list]
NotGiven    == [defined |-> FALSE, list |-> << >>]

\* undefined, and the function a plain object inherits as its constructor
Undefined      == [t |-> "undefined", n |-> 0, s |-> Empty]
ObjectFunction == [t |-> "function", n |-> 0, s |-> Empty]

\* "constructor", a property name every plain object inherits
ConstructorKey == <<99, 111, 110, 115, 116, 114, 117, 99, 116, 111, 114>>

\* "function Object() { [native code] }"
ObjectFunctionSource ==
    <<102, 117, 110, 99, 116, 105, 111, 110, 32, 79, 98, 106, 101, 99, 116, 40, 41,
      32, 123, 32, 91, 110, 97, 116, 105, 118, 101, 32, 99, 111, 100, 101, 93, 32, 125>>

\* the decimal numeral of a natural number
RECURSIVE Numeral(_)
Numeral(n) == IF n < 10 THEN <<48 + n>> ELSE Numeral(n \div 10) \o <<48 + (n % 10)>>

\* String(v)
StringOf(v) ==
    CASE v.t = "string"   -> v.s
      [] v.t = "function" -> ObjectFunctionSource
      [] v.t = "number"   -> IF v.n < 0 THEN <<45>> \o Numeral(0 - v.n) ELSE Numeral(v.n)

\* Math.abs(Amount)
MathAbs(v) == LET n == NumberOf(v) IN Num(IF n < 0 THEN 0 - n ELSE n)

\* a + b: the sum of two numbers; a concatenation when a is no number
Plus(a, b) ==
    IF a.t = "number" /\ b.t = "number"
    THEN Num(a.n + b.n)
    ELSE Str(StringOf(a) \o StringOf(b))

\* the positions of the own property key in the object totals, a list of
\* properties in the order of their creation
OwnAt(totals, key) == {i \in 1..Len(totals) : totals[i].key = key}

\* totals[key]: the own property, else what Object.prototype provides
GetProperty(totals, key) ==
    IF OwnAt(totals, key) # {} THEN totals[CHOOSE i \in OwnAt(totals, key) : TRUE].value
    ELSE IF key = ConstructorKey THEN ObjectFunction
    ELSE Undefined

\* totals[key] = value
SetProperty(totals, key, value) ==
    IF OwnAt(totals, key) # {}
    THEN [i \in 1..Len(totals) |-> IF totals[i].key = key
                                    THEN [key |-> key, value |-> value]
                                    ELSE totals[i]]
    ELSE Append(totals, [key |-> key, value |-> value])

\* v || 0
OrZero(v) ==
    IF v.t = "undefined" \/ (v.t = "number" /\ v.n = 0) \/ (v.t = "string" /\ v.s = Empty)
    THEN Num(0)
    ELSE v

\* the callback of transactions.reduce
Accumulate(totals, transaction) ==
    IF transaction.Category # Empty /\ transaction.Amount.t # "undefined"
    THEN SetProperty(totals, transaction.Category,
                     Plus(OrZero(GetProperty(totals, transaction.Category)),
                          MathAbs(transaction.Amount)))
    ELSE totals

RECURSIVE Reduce(_, _)
Reduce(totals, transactions) ==
    IF transactions = << >> THEN totals
    ELSE Reduce(Accumulate(totals, Head(transactions)), Tail(transactions))

\* a canonical numeric string below 2^32 - 1: an integer index
IsIntegerIndex(key) ==
    /\ key # Empty
    /\ Len(key) <= 9
    /\ \A i \in 1..Len(key) : key[i] >= 48 /\ key[i] <= 57
    /\ Len(key) > 1 => key[1] # 48

\* the own properties in the order Object.keys and Object.values list them:
\* integer indices in ascending order, then the others in creation order
OwnProperties(totals) ==
    SortSeq(SelectSeq(totals, LAMBDA e : IsIntegerIndex(e.key)),
            LAMBDA a, b : ToNumber(a.key) < ToNumber(b.key))
    \o SelectSeq(totals, LAMBDA e : ~IsIntegerIndex(e.key))

EmptyResult == [labels |-> << >>, data |-> << >>, colors |-> << >>]

processData(transactions) ==
    IF ~transactions.defined \/ Len(transactions.list) = 0
    THEN EmptyResult
    ELSE LET categoryTotals == OwnProperties(Reduce(<< >>, transactions.list))
             n == Len(categoryTotals)
         IN  [labels |-> [i \in 1..n |-> categoryTotals[i].key],
              data   |-> [i \in 1..n |-> categoryTotals[i].value],
              colors |-> [i \in 1..n |-> COLORS[((i - 1) % Len(COLORS)) + 1]]]

\* the chart data PieChart starts with
NoChart == [labels |-> << >>, data |-> << >>, backgroundColor |-> << >>]

\* the object handed to setChartData
ChartData(result) ==
    [labels |-> result.labels, data |-> result.data, backgroundColor |-> result.colors]

\* PieChart's effect on [transactions], run when the store has been set
UseEffect(chart, transactions) ==
    IF Len(transactions) > 0
    THEN ChartData(processData(Given(transactions)))
    ELSE chart

-----------------------------------------------------------------------------
(* SpendingLimit: state *)

\* useState(1200)
DefaultLimit == 1200

\* a fetch of SpendingLimit.fetchTransactions awaiting its continuation
\* (overtaken is history: the result of a fetch started later has been applied)
Poll == [stage |-> "sent", data |-> << >>, overtaken |-> FALSE]

\* history of a step of SpendingLimit: the operation, the fetch it continues
\* and the amount spent it found
NoPoll == [op |-> "none", poll |-> Poll, spent |-> 0, value |-> Empty]

-----------------------------------------------------------------------------
(* ChatBot: state *)

\* no POST /chat is in flight
NoChat == [stage |-> "none", question |-> Empty, text |-> Empty]

-----------------------------------------------------------------------------
(* Initial state: App and FinTrackTable are mounted, and the mount effect of *)
(* each has issued its GET /get_data.                                        *)

\* useState({ key: null, direction: 'asc' }), useState({ start: null, end: null })
NoSort  == [key |-> "null", direction |-> "asc"]
NoRange == [start |-> Null, end |-> Null]

EmptyForm == [Date |-> Null, Description |-> Empty, Amount |-> Str(Empty),
              Balance |-> Str(Empty), Category |-> Empty]

Init ==
    /\ tableData = << >>
    /\ backend \in SeqsUpTo(BackendRecords, MaxStore)
    /\ sortConfig = NoSort
    /\ searchTerm = Empty
    /\ dateRange = NoRange
    /\ newTransaction = EmptyForm
    /\ file = NoFile
    /\ uploadProgress = 0
    /\ isError = FALSE
    /\ inflight = <<GetData("App"), GetData("FinTrackTable")>>
    /\ tz \in TimeZones
    /\ last = [op |-> "none", call |-> NoCall, data |-> << >>, form |-> EmptyForm,
               config |-> NoSort, sent |-> FALSE,
               reported |-> FALSE, logged |-> FALSE]
    /\ chartData = NoChart
    /\ limit = DefaultLimit
    /\ spent = 0
    /\ loading = TRUE
    /\ polls = <<Poll>>
    /\ lastPoll = NoPoll
    /\ mounted = TRUE
    /\ interval = "running"
    /\ messages = << >>
    /\ input = Empty
    /\ isLoading = FALSE
    /\ chatCall = NoChat
    /\ lastChat = [op |-> "none", messages |-> << >>, input |-> Empty, call |-> NoChat]

-----------------------------------------------------------------------------
(* The Transaction Service *)

\* the record the relational store keeps for a posted transaction: amount
\* and balance are decimals
Stored(body) == Rec(body.Date, body.Description, Num(NumberOf(body.Amount)),
                    Num(NumberOf(body.Balance)), body.Category)

\* the backend serves call i and answers it with a 2xx status
Serve(i, status) ==
    /\ i \in 1..Len(inflight)
    /\ inflight[i].stage = "sent"
    /\ LET c == inflight[i]
           answer(d) == [inflight EXCEPT ![i] = [c EXCEPT !.stage = "ok", !.status = status, !.data = d]]
       IN  CASE c.kind = "get" ->
                  /\ backend' = backend
                  /\ inflight' = answer(backend)
             [] c.kind = "delete" ->
                  /\ c.index < Len(backend)
                  /\ backend' = Without(backend, c.index + 1)
                  /\ inflight' = answer(<< >>)
             [] c.kind = "add" ->
                  /\ Len(backend) < MaxStore
                  /\ backend' = Append(backend, Stored(c.body))
                  /\ inflight' = answer(<< >>)
             [] c.kind = "upload" ->
                  /\ Len(backend) + Len(c.upload.rows) <= MaxStore
                  /\ backend' = backend \o c.upload.rows
                  /\ inflight' = answer(c.upload.rows)
    /\ UNCHANGED <<tableData, sortConfig, searchTerm, dateRange, newTransaction,
                   file, uploadProgress, isError, tz>>
    /\ UNCHANGED <<chartData, gauge, chat>>
    /\ Quiet

\* call i fails: the transport fails or the backend answers outside 2xx, and
\* the backend's records are as they were
Fail(i) ==
    /\ i \in 1..Len(inflight)
    /\ inflight[i].stage = "sent"
    /\ inflight' = [inflight EXCEPT ![i].stage = "error"]
    /\ UNCHANGED <<tableData, backend, sortConfig, searchTerm, dateRange,
                   newTransaction, file, uploadProgress, isError, tz>>
    /\ UNCHANGED <<chartData, gauge, chat>>
    /\ Quiet

-----------------------------------------------------------------------------
(* App.fetchData, FinTrackTable.fetchData *)

\* accepting every 2xx status
IsOk_Any2xx(status) == status >= 200

\* response.status === 200
IsOk(status) == status = 200

\* appending the fetched list
Fetched_Appended(prevData, data) == prevData \o data

\* setTableData(response.data)
Fetched(prevData, data) == data

\* the continuation of fetchData after await axios.get('/get_data')
FetchContinuation(i) ==
    /\ Answered(i)
    /\ inflight[i].kind = "get"
    /\ tableData' = IF inflight[i].stage = "ok" /\ IsOk(inflight[i].status)
                    THEN Fetched(tableData, inflight[i].data)
                    ELSE tableData
    /\ chartData' = IF inflight[i].stage = "ok" /\ IsOk(inflight[i].status)
                    THEN UseEffect(chartData, tableData')
                    ELSE chartData
    /\ inflight' = Without(inflight, i)
    /\ UNCHANGED <<backend, sortConfig, searchTerm, dateRange, newTransaction,
                   file, uploadProgress, isError, tz>>
    /\ UNCHANGED <<gauge, chat>>
    /\ Did("fetchData", inflight[i])

-----------------------------------------------------------------------------
(* FinTrackTable: filters and sorting *)

\* a search box that keeps in the store only the rows it shows
HandleSearchChange_Filtering(value) ==
    /\ searchTerm' = value
    /\ tableData' = FilterData(tableData, value, dateRange)
    /\ chartData' = UseEffect(chartData, tableData')
    /\ UNCHANGED <<backend, sortConfig, dateRange, newTransaction,
                   file, uploadProgress, isError, inflight, tz>>
    /\ UNCHANGED <<gauge, chat>>
    /\ Quiet

HandleSearchChange(value) ==
    /\ searchTerm' = value
    /\ UNCHANGED <<tableData, backend, sortConfig, dateRange, newTransaction,
                   file, uploadProgress, isError, inflight, tz>>
    /\ UNCHANGED <<chartData, gauge, chat>>
    /\ Quiet

\* the range picker hands over [start, null] after the first click and
\* [start, end] after the second, and [null, null] when cleared
HandleDateRangeChange(start, end) ==
    /\ dateRange' = [start |-> start, end |-> end]
    /\ UNCHANGED <<tableData, backend, sortConfig, searchTerm, newTransaction,
                   file, uploadProgress, isError, inflight, tz>>
    /\ UNCHANGED <<chartData, gauge, chat>>
    /\ Quiet

PickedRanges ==
    {<<Null, Null>>, <<PickedDate(1), Null>>, <<PickedDate(1), PickedDate(31)>>}

\* toggling whatever column was sorted before
NextDirection_AnyKey(config, key) ==
    IF config.direction = "asc" THEN "desc" ELSE "asc"

\* the direction handleSort chooses for a click on the header of key
NextDirection(config, key) ==
    IF config.key = key /\ config.direction = "asc" THEN "desc" ELSE "asc"

HandleSort(key) ==
    LET direction == NextDirection(sortConfig, key)
    IN  /\ sortConfig' = [key |-> key, direction |-> direction]
        /\ tableData' \in SortOutcomes(key, direction, tableData)
        /\ chartData' = UseEffect(chartData, tableData')
        /\ UNCHANGED <<backend, searchTerm, dateRange, newTransaction, file,
                       uploadProgress, isError, inflight, tz>>
        /\ UNCHANGED <<gauge, chat>>
        /\ Did("handleSort", NoCall)

\* leaving the sort state as it is
SortAfterReset_Kept(config) == config

\* setSortConfig({ key: null, direction: 'asc' })
SortAfterReset(config) == NoSort

\* resetFilters up to its await: the setters, then fetchData's axios.get
ResetFilters ==
    /\ Len(inflight) < MaxInflight
    /\ searchTerm' = Empty
    /\ dateRange' = NoRange
    /\ sortConfig' = SortAfterReset(sortConfig)
    /\ inflight' = Append(inflight, GetData("resetFilters"))
    /\ UNCHANGED <<tableData, backend, newTransaction, file, uploadProgress,
                   isError, tz>>
    /\ UNCHANGED <<chartData, gauge, chat>>
    /\ Did("resetFilters", NoCall)

-----------------------------------------------------------------------------
(* FinTrackTable: the rows of the table body *)

NoDataRow == [kind |-> "nodata", index |-> Null, transaction |-> NoBody]
AddRow    == [kind |-> "add", index |-> Null, transaction |-> NoBody]

\* the row of a transaction, with the index its Delete button passes on
RecordRow(transaction, index) ==
    [kind |-> "record", index |-> index, transaction |-> transaction]

\* a body that reports "no data" for an empty store only
TableBody_EmptyStoreOnly(data, term, range) ==
    LET rows == FilterData(data, term, range)
    IN  (IF Len(data) = 0
         THEN <<NoDataRow>>
         ELSE [i \in 1..Len(rows) |-> RecordRow(rows[i], i - 1)])
        \o <<AddRow>>

\* tbody: filterData().length === 0 ? the "no data" row : filterData().map(...),
\* and then the add row
TableBody(data, term, range) ==
    LET rows == FilterData(data, term, range)
    IN  (IF Len(rows) = 0
         THEN <<NoDataRow>>
         ELSE [i \in 1..Len(rows) |-> RecordRow(rows[i], i - 1)])
        \o <<AddRow>>

-----------------------------------------------------------------------------
(* FinTrackTable: delete *)

\* the index the Delete button of the k-th rendered row (k from 0) passes to
\* handleDeleteTransaction
RowIndex(k) == k

\* handleDeleteTransaction up to its await, for a click in rendered row k
HandleDeleteTransaction(k) ==
    /\ Len(inflight) < MaxInflight
    /\ k \in 0..(Len(FilterData(tableData, searchTerm, dateRange)) - 1)
    /\ inflight' = Append(inflight,
                          DeleteCall(RowIndex(k),
                                     RowPositions(tableData, searchTerm, dateRange)[k + 1]))
    /\ UNCHANGED <<tableData, backend, sortConfig, searchTerm, dateRange,
                   newTransaction, file, uploadProgress, isError, tz>>
    /\ UNCHANGED <<chartData, gauge, chat>>
    /\ Did("handleDeleteTransaction", NoCall)

\* prevData.filter((_, i) => i !== index)
RemoveIndex(prevData, index) ==
    SelectSeq([i \in 1..Len(prevData) |-> [i |-> i - 1, x |-> prevData[i]]],
              LAMBDA e : e.i # index)

Elements(pairs) == [i \in 1..Len(pairs) |-> pairs[i].x]

\* the continuation of handleDeleteTransaction after await axios.delete
DeleteContinuation(i) ==
    /\ Answered(i)
    /\ inflight[i].kind = "delete"
    /\ tableData' = IF inflight[i].stage = "ok" /\ IsOk(inflight[i].status)
                    THEN Elements(RemoveIndex(tableData, inflight[i].index))
                    ELSE tableData
    /\ chartData' = IF inflight[i].stage = "ok" /\ IsOk(inflight[i].status)
                    THEN UseEffect(chartData, tableData')
                    ELSE chartData
    /\ inflight' = Without(inflight, i)
    /\ UNCHANGED <<backend, sortConfig, searchTerm, dateRange, newTransaction,
                   file, uploadProgress, isError, tz>>
    /\ UNCHANGED <<gauge, chat>>
    /\ Did("handleDeleteTransaction", inflight[i])

-----------------------------------------------------------------------------
(* FinTrackTable: the add-row form *)

\* { ...prev, [name]: value }, the value being the input element's string
WithField(prev, name, value) ==
    CASE name = "Description" -> [prev EXCEPT !.Description = value]
      [] name = "Amount"      -> [prev EXCEPT !.Amount = Str(value)]
      [] name = "Balance"     -> [prev EXCEPT !.Balance = Str(value)]
      [] name = "Category"    -> [prev EXCEPT !.Category = value]

\* { ...prev, Date: date }
WithDate(prev, date) == [prev EXCEPT !.Date = date]

HandleInputChange(name, value) ==
    /\ newTransaction' = WithField(newTransaction, name, value)
    /\ UNCHANGED <<tableData, backend, sortConfig, searchTerm, dateRange, file,
                   uploadProgress, isError, inflight, tz>>
    /\ UNCHANGED <<chartData, gauge, chat>>
    /\ Quiet

\* handleDateChange: the picker's Date object, or null when cleared
HandleDateChange(date) ==
    /\ newTransaction' = WithDate(newTransaction, date)
    /\ UNCHANGED <<tableData, backend, sortConfig, searchTerm, dateRange, file,
                   uploadProgress, isError, inflight, tz>>
    /\ UNCHANGED <<chartData, gauge, chat>>
    /\ Quiet

\* the user fills the row: handleDateChange and one handleInputChange per
\* field, one after the other with no other event in between
FillRow(date, description, amount, balance, category) ==
    /\ newTransaction' =
         WithField(WithField(WithField(WithField(WithDate(newTransaction, date),
             "Description", description), "Amount", amount), "Balance", balance),
             "Category", category)
    /\ UNCHANGED <<tableData, backend, sortConfig, searchTerm, dateRange, file,
                   uploadProgress, isError, inflight, tz>>
    /\ UNCHANGED <<chartData, gauge, chat>>
    /\ Quiet

\* the test without its last disjunct
Incomplete_NoCategory(form) ==
    \/ form.Date = Null
    \/ form.Description = Empty
    \/ Falsy(form.Amount)
    \/ Falsy(form.Balance)

\* the "all fields are filled" test of handleAddTransaction, negated
Incomplete(form) ==
    \/ form.Date = Null
    \/ form.Description = Empty
    \/ Falsy(form.Amount)
    \/ Falsy(form.Balance)
    \/ form.Category = Empty

\* { ...newTransaction, Date: newTransaction.Date.toISOString().split('T')[0] }
TransactionToAdd(form) == [form EXCEPT !.Date = ToISODate(form.Date)]

\* handleAddTransaction up to its await; with a field missing it alerts and
\* returns
HandleAddTransaction ==
    /\ IF Incomplete(newTransaction)
       THEN UNCHANGED <<tableData, backend, sortConfig, searchTerm, dateRange,
                        newTransaction, file, uploadProgress, isError, inflight, tz>>
       ELSE /\ Len(inflight) < MaxInflight
            /\ inflight' = Append(inflight, AddCall(TransactionToAdd(newTransaction)))
            /\ UNCHANGED <<tableData, backend, sortConfig, searchTerm, dateRange,
                           newTransaction, file, uploadProgress, isError, tz>>
    /\ UNCHANGED <<chartData, gauge, chat>>
    /\ Did("handleAddTransaction", NoCall)

\* putting the new record first
WithAdded_Front(prevData, transactionToAdd) == <<transactionToAdd>> \o prevData

\* [...prevData, transactionToAdd]
WithAdded(prevData, transactionToAdd) == prevData \o <<transactionToAdd>>

\* the continuation of handleAddTransaction after await axios.post
AddContinuation(i) ==
    /\ Answered(i)
    /\ inflight[i].kind = "add"
    /\ IF inflight[i].stage = "ok" /\ IsOk(inflight[i].status)
       THEN /\ tableData' = WithAdded(tableData, inflight[i].body)
            /\ chartData' = UseEffect(chartData, tableData')
            /\ newTransaction' = EmptyForm
       ELSE UNCHANGED <<tableData, chartData, newTransaction>>
    /\ inflight' = Without(inflight, i)
    /\ UNCHANGED <<backend, sortConfig, searchTerm, dateRange, file,
                   uploadProgress, isError, tz>>
    /\ UNCHANGED <<gauge, chat>>
    /\ Did("handleAddTransaction", inflight[i])

-----------------------------------------------------------------------------
(* EnhancedFileUpload, with App.appendTableData as its setTableData *)

\* the test of handleFileSelection; NoFile stands for undefined
IsCsv(selectedFile) ==
    /\ selectedFile # NoFile
    /\ \/ EndsWith(ToLowerCase(selectedFile.name), DotCsv)
       \/ Includes(selectedFile.type, Csv)

HandleFileSelection(selectedFile) ==
    /\ IF IsCsv(selectedFile)
       THEN /\ file' = selectedFile
            /\ isError' = FALSE
            /\ uploadProgress' = 0
       ELSE /\ isError' = TRUE
            /\ file' = NoFile
            /\ UNCHANGED uploadProgress
    /\ UNCHANGED <<tableData, backend, sortConfig, searchTerm, dateRange,
                   newTransaction, inflight, tz>>
    /\ UNCHANGED <<chartData, gauge, chat>>
    /\ DidSelect(selectedFile)

\* handleUpload up to its await; without a file it reports and returns
HandleUpload ==
    /\ IF file = NoFile
       THEN /\ isError' = TRUE
            /\ UNCHANGED <<tableData, backend, sortConfig, searchTerm, dateRange,
                           newTransaction, file, uploadProgress, inflight, tz>>
       ELSE /\ Len(inflight) < MaxInflight
            /\ inflight' = Append(inflight, UploadCall(file))
            /\ UNCHANGED <<tableData, backend, sortConfig, searchTerm, dateRange,
                           newTransaction, file, uploadProgress, isError, tz>>
    /\ UNCHANGED <<chartData, gauge, chat>>
    /\ Did("handleUpload", NoCall)

\* onUploadProgress, while the request body is being sent
OnUploadProgress(i, progress) ==
    /\ i \in 1..Len(inflight)
    /\ inflight[i].kind = "upload"
    /\ inflight[i].stage = "sent"
    /\ uploadProgress' = progress
    /\ UNCHANGED <<tableData, backend, sortConfig, searchTerm, dateRange,
                   newTransaction, file, isError, inflight, tz>>
    /\ UNCHANGED <<chartData, gauge, chat>>
    /\ Quiet

\* replacing the store by the uploaded records
AppendTableData_Replace(prevData, newData) == newData

\* App.appendTableData: [...prevData, ...newData]
AppendTableData(prevData, newData) == prevData \o newData

\* the continuation of handleUpload after await axios.post
UploadContinuation(i) ==
    /\ Answered(i)
    /\ inflight[i].kind = "upload"
    /\ IF inflight[i].stage = "ok" /\ IsOk(inflight[i].status)
       THEN /\ tableData' = AppendTableData(tableData, inflight[i].data)
            /\ chartData' = UseEffect(chartData, tableData')
            /\ file' = NoFile
            /\ isError' = FALSE
            /\ uploadProgress' = 0
       ELSE /\ isError' = TRUE
            /\ uploadProgress' = 0
            /\ file' = NoFile
            /\ UNCHANGED <<tableData, chartData>>
    /\ inflight' = Without(inflight, i)
    /\ UNCHANGED <<backend, sortConfig, searchTerm, dateRange, newTransaction, tz>>
    /\ UNCHANGED <<gauge, chat>>
    /\ Did("handleUpload", inflight[i])

\* files the user may pick or drop
\* "A.CSV" of no type, "a" of type "t/csv", "a.txt" of type "txt"
UpperFile == [name |-> <<65, 46, 67, 83, 86>>, type |-> Empty, rows |-> <<R3, R1>>]
TypedFile == [name |-> <<97>>, type |-> <<116, 47>> \o Csv, rows |-> <<R2>>]
TextFile  == [name |-> <<97, 46, 116, 120, 116>>, type |-> <<116, 120, 116>>, rows |-> << >>]
Files     == {NoFile, UpperFile, TypedFile, TextFile}

-----------------------------------------------------------------------------
(* SpendingLimit, the Spending Limit Gauge.  It polls GET /get_data with    *)
(* fetch, on mount and then on every tick of its interval; amounts are      *)
(* integers in the model, so floating-point rounding of the sum and of the  *)
(* percentage is outside it.                                                *)

\* the longest run of decimal digits a string starts with
RECURSIVE DigitPrefix(_)
DigitPrefix(s) ==
    IF s = << >> \/ Head(s) < 48 \/ Head(s) > 57 THEN << >>
    ELSE <<Head(s)>> \o DigitPrefix(Tail(s))

NaN == [t |-> "NaN", n |-> 0, s |-> Empty]

\* parseFloat(v): a number is itself; a string gives the number its longest
\* numeric prefix denotes, NaN when it has none
ParseFloat(v) ==
    IF v.t = "number" THEN v
    ELSE LET negative == v.s # << >> /\ Head(v.s) = 45
             digits   == DigitPrefix(IF negative THEN Tail(v.s) ELSE v.s)
         IN  IF digits = << >> THEN NaN
             ELSE Num(IF negative THEN 0 - Digits(digits, 0) ELSE Digits(digits, 0))

\* v < 0, false of NaN
Negative(v) == v.t = "number" /\ v.n < 0

\* .reduce((sum, transaction) => sum + Math.abs(parseFloat(transaction.Amount)), 0)
RECURSIVE SumSpent(_, _)
SumSpent(sum, list) ==
    IF list = << >> THEN sum
    ELSE SumSpent(sum + MathAbs(ParseFloat(Head(list).Amount)).n, Tail(list))

\* a total over all the records, whatever the sign of their amounts
TotalSpent_All(data) == SumSpent(0, data)

\* totalSpent: the records with a negative amount, summed by magnitude
TotalSpent(data) ==
    SumSpent(0, SelectSeq(data, LAMBDA transaction : Negative(ParseFloat(transaction.Amount))))

\* a limit taken from the input as it is
Clamp_None(value) == ToNumber(value)

\* Math.max(0, Number(e.target.value))
Clamp(value) == IF ToNumber(value) > 0 THEN ToNumber(value) ELSE 0

\* a percentage: the fraction n / d, and NaN when d = 0
Fraction(n, d) == [n |-> n, d |-> d]

\* percentage >= k, false of NaN
AtLeast(p, k) == p.d > 0 /\ p.n >= k * p.d

\* a percentage that is not capped
Percentage_Uncapped(s, l) ==
    IF l = 0 THEN (IF s = 0 THEN Fraction(0, 0) ELSE Fraction(100, 1))
    ELSE Fraction(s * 100, l)

\* Math.min((spent / limit) * 100, 100); spent / 0 is Infinity, 0 / 0 is NaN
Percentage(s, l) ==
    IF l = 0 THEN (IF s = 0 THEN Fraction(0, 0) ELSE Fraction(100, 1))
    ELSE IF s * 100 >= 100 * l THEN Fraction(100, 1)
    ELSE Fraction(s * 100, l)

Red    == "#ef4444"
Orange == "#f97316"
Green  == "#22c55e"

GetColor(percentage) ==
    IF AtLeast(percentage, 90) THEN Red
    ELSE IF AtLeast(percentage, 75) THEN Orange
    ELSE Green

\* what the gauge's steps leave alone
Table == <<tableData, backend, sortConfig, searchTerm, dateRange, newTransaction,
           file, uploadProgress, isError, inflight, tz, last, chartData, chat>>

\* a tick of setInterval(fetchTransactions, 500): one more fetch
Tick ==
    /\ interval = "running"
    /\ messages = << >>
    /\ input = Empty
    /\ isLoading = FALSE
    /\ chatCall = NoChat
    /\ lastChat = [op |-> "none", messages |-> << >>, input |-> Empty, call |-> NoChat]
    /\ Len(polls) < MaxPolls
    /\ polls' = Append(polls, Poll)
    /\ lastPoll' = NoPoll
    /\ UNCHANGED <<limit, spent, loading, mounted, interval>>
    /\ UNCHANGED Table

\* the backend answers fetch i with the list it holds
ServePoll(i) ==
    /\ i \in 1..Len(polls)
    /\ polls[i].stage = "sent"
    /\ polls' = [polls EXCEPT ![i].stage = "ok", ![i].data = backend]
    /\ lastPoll' = NoPoll
    /\ UNCHANGED <<limit, spent, loading, mounted, interval>>
    /\ UNCHANGED Table

\* fetch i fails: the transport fails, or the body is not a JSON array
FailPoll(i) ==
    /\ i \in 1..Len(polls)
    /\ polls[i].stage = "sent"
    /\ polls' = [polls EXCEPT ![i].stage = "error"]
    /\ lastPoll' = NoPoll
    /\ UNCHANGED <<limit, spent, loading, mounted, interval>>
    /\ UNCHANGED Table

\* the fetches still awaited when the result of fetch i is applied: those
\* started before it are marked
Overtaken(i) ==
    [j \in 1..(Len(polls) - 1) |->
        IF j < i THEN [polls[j] EXCEPT !.overtaken = TRUE] ELSE polls[j + 1]]

\* fetchTransactions after its awaits: the try block, or the catch block;
\* the setters do nothing once the component is unmounted
PollContinuation(i) ==
    /\ i \in 1..Len(polls)
    /\ polls[i].stage # "sent"
    /\ spent' = IF mounted /\ polls[i].stage = "ok" THEN TotalSpent(polls[i].data) ELSE spent
    /\ loading' = IF mounted THEN FALSE ELSE loading
    /\ polls' = IF mounted /\ polls[i].stage = "ok" THEN Overtaken(i) ELSE Without(polls, i)
    /\ lastPoll' = [op |-> IF mounted THEN "poll" ELSE "unmounted", poll |-> polls[i],
                    spent |-> spent, value |-> Empty]
    /\ UNCHANGED <<limit, mounted, interval>>
    /\ UNCHANGED Table

\* onChange of the limit input
SetLimit(value) ==
    /\ mounted
    /\ limit' = Clamp(value)
    /\ lastPoll' = [op |-> "setLimit", poll |-> Poll, spent |-> spent, value |-> value]
    /\ UNCHANGED <<spent, loading, polls, mounted, interval>>
    /\ UNCHANGED Table

\* a timer that is left running
ClearInterval_Kept(intervalId) == intervalId

\* clearInterval(intervalId)
ClearInterval(intervalId) == "cleared"

\* the cleanup of the polling effect, run when the component is unmounted
Unmount ==
    /\ mounted
    /\ mounted' = FALSE
    /\ interval' = ClearInterval(interval)
    /\ lastPoll' = [op |-> "unmount", poll |-> Poll, spent |-> spent, value |-> Empty]
    /\ UNCHANGED <<limit, spent, loading, polls>>
    /\ UNCHANGED Table

\* what the user types into the limit input
LimitInputs == {Empty, MinusFive, Hundred, TwelveHundred}

Gauge ==
    \/ Tick
    \/ \E i \in 1..MaxPolls : ServePoll(i)
    \/ \E i \in 1..MaxPolls : FailPoll(i)
    \/ \E i \in 1..MaxPolls : PollContinuation(i)
    \/ \E value \in LimitInputs : SetLimit(value)

\* the gauge until it leaves the view tree, over a backend that does not change
NextMount ==
    \/ Gauge
    \/ Unmount

-----------------------------------------------------------------------------
(* ChatBot and generateResponse.  The Send button is disabled while         *)
(* isLoading, which also blocks the implicit submission of the form, so one *)
(* POST /chat is in flight at most.                                         *)

Whitespace == {9, 10, 13, 32}

\* a string as it is, white space included
Trim_None(s) == s

\* s.trim()
RECURSIVE TrimStart(_)
TrimStart(s) == IF s # << >> /\ Head(s) \in Whitespace THEN TrimStart(Tail(s)) ELSE s

RECURSIVE TrimEnd(_)
TrimEnd(s) ==
    IF s # << >> /\ s[Len(s)] \in Whitespace THEN TrimEnd(SubSeq(s, 1, Len(s) - 1)) ELSE s

Trim(s) == TrimEnd(TrimStart(s))

\* s.startsWith(t)
StartsWith(s, t) == Len(t) <= Len(s) /\ SubSeq(s, 1, Len(t)) = t

ErrorColon  == <<69, 114, 114, 111, 114, 58>>           \* "Error:"
ErrorPrefix == ErrorColon \o <<32>>                     \* "Error: "

\* generateResponse: response.data.response, or in the catch block
\* `Error: ${error.response?.data?.error || error.message}`
GenerateResponse(call) ==
    IF call.stage = "ok" THEN call.text ELSE ErrorPrefix \o call.text

\* the type handleSubmit gives the reply: response.startsWith('Error:')
ReplyType(call, response) == IF StartsWith(response, ErrorColon) THEN "error" ELSE "bot"

\* onChange of the chat input
SetInput(value) ==
    /\ input' = value
    /\ lastChat' = [op |-> "none", messages |-> messages, input |-> input, call |-> NoChat]
    /\ UNCHANGED <<messages, isLoading, chatCall>>
    /\ UNCHANGED <<tableData, backend, sortConfig, searchTerm, dateRange, newTransaction,
                   file, uploadProgress, isError, inflight, tz, last, chartData, gauge>>

\* handleSubmit up to its await
HandleSubmit ==
    /\ ~isLoading
    /\ IF Trim(input) = Empty
       THEN UNCHANGED <<messages, input, isLoading, chatCall>>
       ELSE /\ Len(messages) + 2 <= MaxMessages
            /\ messages' = Append(messages, [type |-> "user", content |-> input])
            /\ input' = Empty
            /\ isLoading' = TRUE
            /\ chatCall' = [stage |-> "sent", question |-> input, text |-> Empty]
    /\ lastChat' = [op |-> "handleSubmit", messages |-> messages, input |-> input,
                    call |-> NoChat]
    /\ UNCHANGED <<tableData, backend, sortConfig, searchTerm, dateRange, newTransaction,
                   file, uploadProgress, isError, inflight, tz, last, chartData, gauge>>

\* the Chat Relay answers with a text
ServeChat(text) ==
    /\ chatCall.stage = "sent"
    /\ chatCall' = [chatCall EXCEPT !.stage = "ok", !.text = text]
    /\ lastChat' = [op |-> "none", messages |-> messages, input |-> input, call |-> NoChat]
    /\ UNCHANGED <<messages, input, isLoading>>
    /\ UNCHANGED <<tableData, backend, sortConfig, searchTerm, dateRange, newTransaction,
                   file, uploadProgress, isError, inflight, tz, last, chartData, gauge>>

\* the call fails: the service reports an error, or the transport fails;
\* text is the service's error or the message of the axios error
FailChat(text) ==
    /\ chatCall.stage = "sent"
    /\ chatCall' = [chatCall EXCEPT !.stage = "error", !.text = text]
    /\ lastChat' = [op |-> "none", messages |-> messages, input |-> input, call |-> NoChat]
    /\ UNCHANGED <<messages, input, isLoading>>
    /\ UNCHANGED <<tableData, backend, sortConfig, searchTerm, dateRange, newTransaction,
                   file, uploadProgress, isError, inflight, tz, last, chartData, gauge>>

\* handleSubmit after await generateResponse(...), with its finally block
ChatContinuation ==
    /\ chatCall.stage \in {"ok", "error"}
    /\ LET response == GenerateResponse(chatCall)
       IN  messages' = Append(messages, [type    |-> ReplyType(chatCall, response),
                                         content |-> response])
    /\ isLoading' = FALSE
    /\ chatCall' = NoChat
    /\ lastChat' = [op |-> "reply", messages |-> messages, input |-> input, call |-> chatCall]
    /\ UNCHANGED input
    /\ UNCHANGED <<tableData, backend, sortConfig, searchTerm, dateRange, newTransaction,
                   file, uploadProgress, isError, inflight, tz, last, chartData, gauge>>

\* what the user types into the chat input: "", "  ", "Hi", " Hi "
Hi         == <<72, 105>>
ChatInputs == {Empty, <<32, 32>>, Hi, <<32>> \o Hi \o <<32>>}

\* answers of the Chat Relay: "Ok", and "Error: no", a text like any other
Answers  == {<<79, 107>>, ErrorPrefix \o <<110, 111>>}
\* what a failed call reports: "bad" from the service, "Network Error"
Failures == {<<98, 97, 100>>,
             <<78, 101, 116, 119, 111, 114, 107, 32, 69, 114, 114, 111, 114>>}

ChatNetwork ==
    \/ \E text \in Answers : ServeChat(text)
    \/ \E text \in Failures : FailChat(text)

NextChatBot ==
    \/ \E value \in ChatInputs : SetInput(value)
    \/ HandleSubmit
    \/ ChatNetwork
    \/ ChatContinuation

-----------------------------------------------------------------------------
(* Specifications.  Next is the whole program; each further specification   *)
(* keeps the actions of one part of it, so each of its behaviours is a      *)
(* behaviour of Spec.                                                        *)

Network(statuses) ==
    \E i \in 1..MaxInflight :
        \/ \E status \in statuses : Serve(i, status)
        \/ Fail(i)

Continuations ==
    \E i \in 1..MaxInflight :
        \/ FetchContinuation(i)
        \/ DeleteContinuation(i)
        \/ AddContinuation(i)
        \/ UploadContinuation(i)

FormInput ==
    \/ \E value \in {Empty, Tea} : HandleInputChange("Description", value)
    \/ \E value \in {Empty, Ten, Nine} : HandleInputChange("Amount", value)
    \/ \E value \in {Empty, Seven} : HandleInputChange("Balance", value)
    \/ \E value \in {Empty, Food} : HandleInputChange("Category", value)
    \/ \E date \in {Null, PickedDate(20)} : HandleDateChange(date)

\* rows the user may type: complete ones, and ones with one field left out
FullRow(amount) == <<PickedDate(20), Tea, amount, Seven, Food>>
CompleteRows    == {FullRow(Ten), FullRow(Nine)}
IncompleteRows  == {[FullRow(Ten) EXCEPT ![1] = Null]}
                   \cup {[FullRow(Ten) EXCEPT ![i] = Empty] : i \in 2..5}

FillsRow(rows) == \E r \in rows : FillRow(r[1], r[2], r[3], r[4], r[5])

Next ==
    \/ Network(Statuses)
    \/ Continuations
    \/ \E value \in SearchTerms : HandleSearchChange(value)
    \/ \E r \in PickedRanges : HandleDateRangeChange(r[1], r[2])
    \/ \E key \in SortKeys : HandleSort(key)
    \/ ResetFilters
    \/ \E k \in 0..MaxStore : HandleDeleteTransaction(k)
    \/ FormInput
    \/ FillsRow(CompleteRows \cup IncompleteRows)
    \/ HandleAddTransaction
    \/ \E f \in Files : HandleFileSelection(f)
    \/ HandleUpload
    \/ \E i \in 1..MaxInflight, progress \in {50, 100} : OnUploadProgress(i, progress)
    \/ Gauge
    \/ Unmount
    \/ NextChatBot

Spec == Init /\ [][Next]_vars

\* the filters and the delete buttons of the rendered rows
NextView ==
    \/ Network({200})
    \/ \E i \in 1..MaxInflight : FetchContinuation(i)
    \/ \E i \in 1..MaxInflight : DeleteContinuation(i)
    \/ \E value \in SearchTerms : HandleSearchChange(value)
    \/ \E r \in PickedRanges : HandleDateRangeChange(r[1], r[2])
    \/ \E k \in 0..MaxStore : HandleDeleteTransaction(k)

SpecView == Init /\ [][NextView]_vars

\* no call is in flight
Idle == inflight = << >>

\* initial states in which the browser's time zone is UTC, for the parts of
\* the program that read no Date object
InitUTC == Init /\ tz = 0

\* initial states in which the backend holds copies of one record only, for
\* the parts of the program that bring their own records
InitOneRecord == Init /\ backend \in SeqsUpTo({R1}, MaxStore)

\* both
InitOneRecordUTC == InitOneRecord /\ tz = 0

\* one client doing loads, sorts and deletes one after the other, each call
\* answered with status 200 before the next operation starts
NextSortDelete ==
    \/ \E i \in 1..MaxInflight : Serve(i, 200)
    \/ \E i \in 1..MaxInflight : FetchContinuation(i)
    \/ \E i \in 1..MaxInflight : DeleteContinuation(i)
    \/ Idle /\ \E key \in SortKeys : HandleSort(key)
    \/ Idle /\ ResetFilters
    \/ Idle /\ \E k \in 0..MaxStore : HandleDeleteTransaction(k)

SpecSortDelete == InitUTC /\ [][NextSortDelete]_vars

\* loads and deletes with calls overlapping and answered in any order
NextTable ==
    \/ Network(Statuses)
    \/ \E i \in 1..MaxInflight : FetchContinuation(i)
    \/ \E i \in 1..MaxInflight : DeleteContinuation(i)
    \/ ResetFilters
    \/ \E k \in 0..MaxStore : HandleDeleteTransaction(k)

SpecTable == InitUTC /\ [][NextTable]_vars

\* the column headers and Reset Filters, with the filters
NextSort ==
    \/ Network({200})
    \/ \E i \in 1..MaxInflight : FetchContinuation(i)
    \/ \E value \in SearchTerms : HandleSearchChange(value)
    \/ \E r \in PickedRanges : HandleDateRangeChange(r[1], r[2])
    \/ \E key \in SortKeys : HandleSort(key)
    \/ ResetFilters

SpecSort == InitUTC /\ [][NextSort]_vars

\* the add-row form
NextAdd ==
    \/ Network(Statuses)
    \/ \E i \in 1..MaxInflight : FetchContinuation(i)
    \/ \E i \in 1..MaxInflight : AddContinuation(i)
    \/ FillsRow(CompleteRows)
    \/ HandleAddTransaction

SpecAdd == InitOneRecord /\ [][NextAdd]_vars

\* the add-row form and the column headers
NextAddSort ==
    \/ \E i \in 1..MaxInflight : Serve(i, 200)
    \/ \E i \in 1..MaxInflight : FetchContinuation(i)
    \/ \E i \in 1..MaxInflight : AddContinuation(i)
    \/ FillsRow(CompleteRows)
    \/ HandleAddTransaction
    \/ \E value \in SearchTerms : HandleSearchChange(value)
    \/ \E key \in SortKeys : HandleSort(key)

SpecAddSort == InitOneRecordUTC /\ [][NextAddSort]_vars

\* the add-row form and the import box, every call answered with status 200
NextInput ==
    \/ \E i \in 1..MaxInflight : Serve(i, 200)
    \/ \E i \in 1..MaxInflight : FetchContinuation(i)
    \/ \E i \in 1..MaxInflight : AddContinuation(i)
    \/ \E i \in 1..MaxInflight : UploadContinuation(i)
    \/ FillsRow({FullRow(Ten)} \cup IncompleteRows)
    \/ HandleAddTransaction
    \/ \E f \in Files : HandleFileSelection(f)
    \/ HandleUpload

SpecInput == InitOneRecordUTC /\ [][NextInput]_vars

\* the import box, with answers of either status
NextUpload ==
    \/ Network(Statuses)
    \/ \E i \in 1..MaxInflight : FetchContinuation(i)
    \/ \E i \in 1..MaxInflight : UploadContinuation(i)
    \/ \E f \in Files : HandleFileSelection(f)
    \/ HandleUpload
    \/ \E i \in 1..MaxInflight : OnUploadProgress(i, 50)

SpecUpload == InitOneRecordUTC /\ [][NextUpload]_vars

\* handleSort as a function of the store: the store holds a record loaded
\* from the backend and records added through the form, in any order
R4        == Rec(40, Rent, Num(50), Num(1150), Home)
Added(amount) == Rec(20, Tea, Str(amount), Str(Seven), Food)
SortedRecords == {R4, Added(Hundred), Added(Nine)}

InitSorting ==
    /\ tableData \in SeqsUpTo(SortedRecords, MaxSorted)
    /\ backend = [i \in 1..Len(tableData) |-> Stored(tableData[i])]
    /\ sortConfig = NoSort
    /\ searchTerm = Empty
    /\ dateRange = NoRange
    /\ newTransaction = EmptyForm
    /\ file = NoFile
    /\ uploadProgress = 0
    /\ isError = FALSE
    /\ inflight = << >>
    /\ tz = 0
    /\ last = [op |-> "none", call |-> NoCall, data |-> tableData, form |-> EmptyForm,
               config |-> NoSort, sent |-> FALSE,
               reported |-> FALSE, logged |-> FALSE]
    /\ chartData = UseEffect(NoChart, tableData)
    /\ limit = DefaultLimit
    /\ spent = 0
    /\ loading = TRUE
    /\ polls = <<Poll>>
    /\ lastPoll = NoPoll
    /\ mounted = TRUE
    /\ interval = "running"
    /\ messages = << >>
    /\ input = Empty
    /\ isLoading = FALSE
    /\ chatCall = NoChat
    /\ lastChat = [op |-> "none", messages |-> << >>, input |-> Empty, call |-> NoChat]

NextSorting == \E key \in SortKeys : HandleSort(key)

SpecSorting == InitSorting /\ [][NextSorting]_vars

\* every operation that touches the store or the filters, one call at a time
\* and every call answered with status 200
NextFrame ==
    \/ \E i \in 1..MaxInflight : Serve(i, 200)
    \/ Continuations
    \/ \E value \in SearchTerms : HandleSearchChange(value)
    \/ \E r \in PickedRanges : HandleDateRangeChange(r[1], r[2])
    \/ Idle /\ \E key \in SortKeys : HandleSort(key)
    \/ Idle /\ ResetFilters
    \/ Idle /\ \E k \in 0..MaxStore : HandleDeleteTransaction(k)
    \/ Idle /\ FillsRow({FullRow(Ten)})
    \/ Idle /\ HandleAddTransaction
    \/ Idle /\ HandleFileSelection(TypedFile)
    \/ Idle /\ HandleUpload

SpecFrame == InitOneRecordUTC /\ [][NextFrame]_vars

\* processData as a function of the loaded list: the backend holds records
\* of ordinary categories, of the categories "1" and "constructor" and of no
\* category, with amounts of either sign, and a record added through the form
One          == <<49>>                                \* "1"
RNumbered    == Rec(2, Tea, Num(-7), Num(93), One)
RConstructor == Rec(3, Tea, Num(-8), Num(85), ConstructorKey)
RNoCategory  == Rec(4, Tea, Num(-9), Num(76), Empty)
ChartRecords == {R1, R3, R4, RNumbered, RConstructor, RNoCategory, Added(Nine)}

InitChart ==
    /\ tableData = << >>
    /\ backend \in SeqsUpTo(ChartRecords, MaxChart)
    /\ sortConfig = NoSort
    /\ searchTerm = Empty
    /\ dateRange = NoRange
    /\ newTransaction = EmptyForm
    /\ file = NoFile
    /\ uploadProgress = 0
    /\ isError = FALSE
    /\ inflight = <<GetData("App"), GetData("FinTrackTable")>>
    /\ tz = 0
    /\ last = [op |-> "none", call |-> NoCall, data |-> << >>, form |-> EmptyForm,
               config |-> NoSort, sent |-> FALSE,
               reported |-> FALSE, logged |-> FALSE]
    /\ chartData = NoChart
    /\ limit = DefaultLimit
    /\ spent = 0
    /\ loading = TRUE
    /\ polls = <<Poll>>
    /\ lastPoll = NoPoll
    /\ mounted = TRUE
    /\ interval = "running"
    /\ messages = << >>
    /\ input = Empty
    /\ isLoading = FALSE
    /\ chatCall = NoChat
    /\ lastChat = [op |-> "none", messages |-> << >>, input |-> Empty, call |-> NoChat]

NextChart ==
    \/ \E i \in 1..MaxInflight : Serve(i, 200)
    \/ \E i \in 1..MaxInflight : FetchContinuation(i)

SpecChart == InitChart /\ [][NextChart]_vars

\* the gauge, over a backend whose list a delete from the table shortens
G1 == Rec(2, Coffee, Num(-300), Num(900), Food)
G2 == Rec(3, Rent, Num(-1100), Num(100), Home)
G3 == Rec(4, Tea, Str(MinusEighty), Str(Hundred), Food)
GaugeRecords == {G1, G2, G3, R4}

InitGauge ==
    /\ tableData = << >>
    /\ backend \in SeqsUpTo(GaugeRecords, MaxStore)
    /\ sortConfig = NoSort
    /\ searchTerm = Empty
    /\ dateRange = NoRange
    /\ newTransaction = EmptyForm
    /\ file = NoFile
    /\ uploadProgress = 0
    /\ isError = FALSE
    /\ inflight = <<GetData("App"), GetData("FinTrackTable")>>
    /\ tz = 0
    /\ last = [op |-> "none", call |-> NoCall, data |-> << >>, form |-> EmptyForm,
               config |-> NoSort, sent |-> FALSE,
               reported |-> FALSE, logged |-> FALSE]
    /\ chartData = NoChart
    /\ limit = DefaultLimit
    /\ spent = 0
    /\ loading = TRUE
    /\ polls = <<Poll>>
    /\ lastPoll = NoPoll
    /\ mounted = TRUE
    /\ interval = "running"
    /\ messages = << >>
    /\ input = Empty
    /\ isLoading = FALSE
    /\ chatCall = NoChat
    /\ lastChat = [op |-> "none", messages |-> << >>, input |-> Empty, call |-> NoChat]

NextGauge ==
    \/ Gauge
    \/ \E i \in 1..MaxInflight : Serve(i, 200)
    \/ \E i \in 1..MaxInflight : FetchContinuation(i)
    \/ \E i \in 1..MaxInflight : DeleteContinuation(i)
    \/ Idle /\ HandleDeleteTransaction(0)

SpecGauge == InitGauge /\ [][NextGauge]_vars

SpecMount == InitGauge /\ [][NextMount]_vars

\* the table over a backend that holds records without a description, as an
\* import can leave them
RNull == Rec(5, NoText, Num(-7), Num(93), Food)

InitImport ==
    /\ tableData = << >>
    /\ backend \in SeqsUpTo({R1, R3, RNull}, MaxStore)
    /\ sortConfig = NoSort
    /\ searchTerm = Empty
    /\ dateRange = NoRange
    /\ newTransaction = EmptyForm
    /\ file = NoFile
    /\ uploadProgress = 0
    /\ isError = FALSE
    /\ inflight = <<GetData("App"), GetData("FinTrackTable")>>
    /\ tz = 0
    /\ last = [op |-> "none", call |-> NoCall, data |-> << >>, form |-> EmptyForm,
               config |-> NoSort, sent |-> FALSE,
               reported |-> FALSE, logged |-> FALSE]
    /\ chartData = NoChart
    /\ limit = DefaultLimit
    /\ spent = 0
    /\ loading = TRUE
    /\ polls = <<Poll>>
    /\ lastPoll = NoPoll
    /\ mounted = TRUE
    /\ interval = "running"
    /\ messages = << >>
    /\ input = Empty
    /\ isLoading = FALSE
    /\ chatCall = NoChat
    /\ lastChat = [op |-> "none", messages |-> << >>, input |-> Empty, call |-> NoChat]

NextImport ==
    \/ \E i \in 1..MaxInflight : Serve(i, 200)
    \/ \E i \in 1..MaxInflight : FetchContinuation(i)
    \/ \E value \in SearchTerms : HandleSearchChange(value)

SpecImport == InitImport /\ [][NextImport]_vars

\* deletes clicked one after another on a loaded table, the requests served
\* and the responses applied in any order
InitLoaded ==
    /\ backend \in SeqsUpTo(BackendRecords, MaxStore)
    /\ tableData = backend
    /\ sortConfig = NoSort
    /\ searchTerm = Empty
    /\ dateRange = NoRange
    /\ newTransaction = EmptyForm
    /\ file = NoFile
    /\ uploadProgress = 0
    /\ isError = FALSE
    /\ inflight = << >>
    /\ tz = 0
    /\ last = [op |-> "none", call |-> NoCall, data |-> tableData, form |-> EmptyForm,
               config |-> NoSort, sent |-> FALSE,
               reported |-> FALSE, logged |-> FALSE]
    /\ chartData = UseEffect(NoChart, tableData)
    /\ limit = DefaultLimit
    /\ spent = 0
    /\ loading = TRUE
    /\ polls = <<Poll>>
    /\ lastPoll = NoPoll
    /\ mounted = TRUE
    /\ interval = "running"
    /\ messages = << >>
    /\ input = Empty
    /\ isLoading = FALSE
    /\ chatCall = NoChat
    /\ lastChat = [op |-> "none", messages |-> << >>, input |-> Empty, call |-> NoChat]

NextDeletes ==
    \/ \E i \in 1..MaxInflight : Serve(i, 200)
    \/ \E i \in 1..MaxInflight : DeleteContinuation(i)
    \/ \E k \in 0..MaxStore : HandleDeleteTransaction(k)

SpecDeletes == InitLoaded /\ [][NextDeletes]_vars

\* the chat panel beside a table that is loaded and left alone
SpecChatBot == InitLoaded /\ [][NextChatBot]_vars

\* a call is answered or fails in the end, and its continuation runs
SpecChatBotLive ==
    SpecChatBot /\ WF_vars(ChatNetwork) /\ WF_vars(ChatContinuation)

-----------------------------------------------------------------------------
(* Claims *)

\* the step just taken is the continuation of a call of this kind that the
\* backend answered with status 200
Confirmed(kind) ==
    last.call.kind = kind /\ last.call.stage = "ok" /\ last.call.status = 200

Count(q, x) == Cardinality({i \in 1..Len(q) : q[i] = x})

\* the two lists hold the same records, each as often
SameRecords(p, q) ==
    \A x \in {p[i] : i \in 1..Len(p)} \cup {q[i] : i \in 1..Len(q)} :
        Count(p, x) = Count(q, x)

\* C1: every delete sent for a click on a displayed row carries the position
\* that row's record has in the Transaction Store (not its position among
\* the filtered rows), so that the record removed is the record clicked.
C1_DeleteSendsStorePosition ==
    \A i \in 1..Len(inflight) :
        inflight[i].kind = "delete" => inflight[i].index = inflight[i].row

\* C2: with one client and loads, sorts and confirmed deletes done one after
\* the other, whenever no call is in flight the client's Transaction Store
\* holds exactly the records the backend holds.
C2_StoreHoldsBackendRecords == Idle => SameRecords(tableData, backend)

\* C3 as stated: the Transaction Store changes in a delete only when the
\* DELETE was answered with status 200, and then exactly one record, the one
\* at the requested index, is removed and the others keep their order; on a
\* failure or another answer the store is unchanged.
C3_DeleteRemovesExactlyOne ==
    last.op = "handleDeleteTransaction" =>
        IF Confirmed("delete")
        THEN /\ Len(tableData) = Len(last.data) - 1
             /\ tableData = Without(last.data, last.call.index + 1)
        ELSE tableData = last.data

\* C3 amended: the Transaction Store changes in a delete only when the DELETE
\* was answered with status 200, and then the record at the requested index
\* of the store as it is when the answer is applied is removed, the others
\* keeping their order, if the store has that index, and nothing is removed
\* if it has not; on a failure or another answer the store is unchanged.
C3_DeleteRemovesIndexIfPresent ==
    last.op = "handleDeleteTransaction" =>
        IF Confirmed("delete")
        THEN tableData = IF last.call.index < Len(last.data)
                         THEN Without(last.data, last.call.index + 1)
                         ELSE last.data
        ELSE tableData = last.data

\* a confirmed delete has removed one of two records
C3_Witness ==
    /\ last.op = "handleDeleteTransaction"
    /\ Confirmed("delete")
    /\ Len(last.data) = 2
    /\ Len(tableData) = 1

\* C4: the Transaction Store changes in an add only when the POST was
\* answered with status 200, and then it is the list of that moment followed
\* by the submitted record, and the form is reset; otherwise store and form
\* are unchanged.  The submitted record is the form's with the date as the
\* ISO day of the picked instant.
C4_AddAppendsOnConfirmation ==
    /\ last.op = "handleAddTransaction" =>
           IF Confirmed("add")
           THEN /\ tableData = Append(last.data, last.call.body)
                /\ newTransaction = EmptyForm
           ELSE /\ tableData = last.data
                /\ newTransaction = last.form
    /\ last.op = "handleAddTransaction" /\ last.sent =>
           LET body == inflight[Len(inflight)].body
           IN  /\ body.Date * 24 <= last.form.Date
               /\ last.form.Date < (body.Date + 1) * 24
               /\ body = [last.form EXCEPT !.Date = body.Date]

\* a confirmed add has put its record behind a record already held and has
\* reset a filled form
C4_Witness ==
    /\ last.op = "handleAddTransaction"
    /\ Confirmed("add")
    /\ Len(last.data) >= 1
    /\ last.form # EmptyForm
    /\ tableData[Len(tableData)] = last.call.body

\* a field of the add-row form is missing
Missing(form) ==
    \/ form.Date = Null
    \/ form.Description = Empty
    \/ form.Amount = Str(Empty)
    \/ form.Balance = Str(Empty)
    \/ form.Category = Empty

\* files that are no CSV files: a text file, and no file at all
NonCsvFiles == {TextFile, NoFile}

\* C5: a failed client-side validation issues no call: submitting the form
\* with a field missing sends nothing and leaves the store unchanged, a
\* non-CSV file is not selected, and an upload without a selected file
\* sends nothing and leaves the store unchanged.
C5_ValidationBlocksCalls ==
    /\ last.op = "handleAddTransaction" /\ last.call.kind = "none" /\ Missing(last.form) =>
           ~last.sent /\ tableData = last.data
    /\ \A i \in 1..Len(inflight) : inflight[i].kind = "add" => ~Missing(inflight[i].body)
    /\ last.op = "handleFileSelection" /\ last.call.upload \in NonCsvFiles =>
           file = NoFile /\ ~last.sent
    /\ last.op = "handleUpload" /\ last.call.kind = "none" /\ file = NoFile =>
           ~last.sent /\ tableData = last.data
    /\ \A i \in 1..Len(inflight) :
           inflight[i].kind = "upload" => inflight[i].upload \notin NonCsvFiles

\* the form has been submitted with the category alone missing
C5_Witness ==
    /\ last.op = "handleAddTransaction"
    /\ last.call.kind = "none"
    /\ last.form.Category = Empty
    /\ last.form.Date # Null
    /\ last.form.Description # Empty
    /\ last.form.Amount # Str(Empty)
    /\ last.form.Balance # Str(Empty)
    /\ ~last.sent

\* C6: after an upload answered with status 200 the Transaction Store is the
\* list held when the answer is applied followed by the returned records in
\* returned order; after a failed upload the store is unchanged, no file is
\* selected and the progress is 0.
C6_UploadAppends ==
    last.op = "handleUpload" /\ last.call.kind = "upload" =>
        IF Confirmed("upload")
        THEN tableData = last.data \o last.call.data
        ELSE /\ tableData = last.data
             /\ file = NoFile
             /\ uploadProgress = 0

\* a confirmed upload has put its records behind a record already held
C6_Witness ==
    /\ last.op = "handleUpload"
    /\ Confirmed("upload")
    /\ Len(last.data) >= 1
    /\ Len(last.call.data) >= 1
    /\ Len(tableData) = Len(last.data) + Len(last.call.data)

\* C7: a load answered with status 200 replaces the Transaction Store by the
\* returned list; a load that fails leaves the store as it was, empty if it
\* was the first.
C7_LoadReplacesOrKeeps ==
    last.op = "fetchData" =>
        IF Confirmed("get")
        THEN tableData = last.call.data
        ELSE tableData = last.data

\* a confirmed load has replaced a store that held other records
C7_Witness ==
    /\ last.op = "fetchData"
    /\ Confirmed("get")
    /\ last.data # << >>
    /\ tableData # last.data
    /\ tableData = last.call.data

\* C8 as stated: once resetFilters has completed, the search term is empty,
\* the date range is cleared, no column is marked as sorted and the visible
\* rows are the backend's list in backend order.
C8_ResetShowsBackendList ==
    last.op = "fetchData" /\ last.call.from = "resetFilters" =>
        /\ searchTerm = Empty
        /\ dateRange = NoRange
        /\ sortConfig.key = "null"
        /\ FilterData(tableData, searchTerm, dateRange) = backend

\* C8 amended: resetFilters at once clears the search term, the date range
\* and the sort marker and leaves the store as it is; when its fetch is
\* answered with status 200 the store becomes the backend's list in backend
\* order, which is what is visible unless a filter has been set again in
\* the meantime; when its fetch fails the store keeps the content and the
\* order it had.
C8_ResetClearsAndReloads ==
    /\ last.op = "resetFilters" =>
           /\ searchTerm = Empty
           /\ dateRange = NoRange
           /\ sortConfig.key = "null"
           /\ tableData = last.data
           /\ last.sent
    /\ last.op = "fetchData" /\ last.call.from = "resetFilters" =>
           IF Confirmed("get")
           THEN /\ tableData = backend
                /\ searchTerm = Empty /\ dateRange = NoRange =>
                       FilterData(tableData, searchTerm, dateRange) = backend
           ELSE tableData = last.data

\* the fetch of a reset has put a sorted store of two records back into
\* backend order
C8_Witness ==
    /\ last.op = "fetchData"
    /\ last.call.from = "resetFilters"
    /\ Confirmed("get")
    /\ Len(tableData) = 2
    /\ SameRecords(tableData, last.data)
    /\ tableData # last.data
    /\ sortConfig.key = "null"

\* C9: one column at most is the sort column; a click on the header of
\* another column makes that column the sort column, ascending, and a click
\* on the header of the sort column turns its direction over.
C9_OneColumnToggles ==
    /\ sortConfig.key \in SortKeys \cup {"null"}
    /\ sortConfig.direction \in {"asc", "desc"}
    /\ last.op = "handleSort" =>
           /\ sortConfig.key \in SortKeys
           /\ sortConfig.key # last.config.key => sortConfig.direction = "asc"
           /\ sortConfig.key = last.config.key =>
                  sortConfig.direction # last.config.direction

\* the third click on one header: from descending back to ascending
C9_Witness ==
    /\ last.op = "handleSort"
    /\ sortConfig.key = last.config.key
    /\ last.config.direction = "desc"
    /\ sortConfig.direction = "asc"

\* a does not come after b in the order of the column: dates by day, amounts
\* by value, categories by their letters
ColumnLeq(key, a, b) ==
    CASE key = "Date"     -> a.Date <= b.Date
      [] key = "Amount"   -> NumberOf(a.Amount) <= NumberOf(b.Amount)
      [] key = "Category" -> ~StrLess(b.Category, a.Category)

\* C10: a sort leaves in the Transaction Store the records it held, each as
\* often, whatever the filters, and leaves them non-decreasing (ascending)
\* or non-increasing (descending) in the chosen column.
C10_SortPermutesAndOrders ==
    last.op = "handleSort" =>
        /\ SameRecords(tableData, last.data)
        /\ \A j \in 1..(Len(tableData) - 1) :
               IF sortConfig.direction = "asc"
               THEN ColumnLeq(sortConfig.key, tableData[j], tableData[j + 1])
               ELSE ColumnLeq(sortConfig.key, tableData[j + 1], tableData[j])

Reverse(q) == [i \in 1..Len(q) |-> q[Len(q) + 1 - i]]

\* the values of the column are pairwise distinct in the list
DistinctIn(key, data) ==
    \A i, j \in 1..Len(data) :
        i # j => CASE key = "Date"     -> data[i].Date # data[j].Date
                   [] key = "Amount"   -> data[i].Amount # data[j].Amount
                   [] key = "Category" -> data[i].Category # data[j].Category

\* C11: for a list whose values in the sorted column are pairwise distinct,
\* the descending sort of the list is the reverse of its ascending sort, and
\* the ascending sort of the ascending sort is that sort again.
C11_DescendingReversesAscending ==
    last.op = "handleSort" /\ sortConfig.direction = "asc"
            /\ DistinctIn(sortConfig.key, last.data) =>
        /\ SortOutcomes(sortConfig.key, "desc", last.data) = {Reverse(tableData)}
        /\ SortOutcomes(sortConfig.key, "asc", tableData) = {tableData}

\* t occurs in s when letter case is ignored
ContainsIgnoringCase(s, t) ==
    \E k \in 0..(Len(s) - Len(t)) :
        \A i \in 1..Len(t) : ToLowerCase(<<s[k + i]>>) = ToLowerCase(<<t[i]>>)

\* the calendar day the user picked for a Date of the range picker
DayPicked(time) == (time + tz) \div 24

\* the record is one the filters are to show
Wanted(r) ==
    /\ ContainsIgnoringCase(r.Description, searchTerm)
    /\ dateRange.start # Null /\ dateRange.end # Null =>
           DayPicked(dateRange.start) <= r.Date /\ r.Date <= DayPicked(dateRange.end)

\* C12: the visible rows are the records of the Transaction Store, in store
\* order, whose description contains the search term whatever the letter
\* case and whose date lies between the picked start and end days, both
\* included, when both are picked.
C12_VisibleRowsAreTheMatches ==
    FilterData(tableData, searchTerm, dateRange) = SelectSeq(tableData, Wanted)

\* the operations of the Transaction Store: sort, load, add, upload, delete
StoreOperations ==
    {"handleSort", "fetchData", "handleAddTransaction", "handleUpload",
     "handleDeleteTransaction"}

\* C13: a step that changes the search term or the date range and is no
\* reset leaves the Transaction Store and the sort column and direction as
\* they are, and every step that changes the store is a step of sort, load,
\* add, upload or delete.
C13_FiltersLeaveStoreAndSort ==
    [][/\ (searchTerm' # searchTerm \/ dateRange' # dateRange) /\ last'.op = "none" =>
            tableData' = tableData /\ sortConfig' = sortConfig
       /\ tableData' # tableData => last'.op \in StoreOperations]_vars

\* a search term and a date range are set over a sorted store of two records
C13_Witness ==
    /\ searchTerm # Empty
    /\ dateRange.start # Null /\ dateRange.end # Null
    /\ sortConfig.key # "null"
    /\ Len(tableData) = 2
    /\ Len(FilterData(tableData, searchTerm, dateRange)) < 2
    /\ last.op = "none"

\* the rows of one kind in the table body, in order
RowsOf(kind) ==
    SelectSeq(TableBody(tableData, searchTerm, dateRange), LAMBDA row : row.kind = kind)

\* C14: the table shows the "No data available." row exactly when no record
\* is visible, whether the store is empty or the filters exclude every
\* record; otherwise it shows one row for each visible record, in order.
C14_NoDataRowIffNothingVisible ==
    LET visible == FilterData(tableData, searchTerm, dateRange)
    IN  /\ Len(RowsOf("nodata")) = (IF visible = << >> THEN 1 ELSE 0)
        /\ Len(RowsOf("record")) = Len(visible)
        /\ \A i \in 1..Len(visible) : RowsOf("record")[i].transaction = visible[i]

\* the store holds records and the filters exclude them all
C14_Witness ==
    /\ tableData # << >>
    /\ FilterData(tableData, searchTerm, dateRange) = << >>
    /\ RowsOf("nodata") = <<NoDataRow>>
    /\ RowsOf("record") = << >>

\* the distinct non-empty categories of a list
Categories(list) == {list[i].Category : i \in 1..Len(list)} \ {Empty}

\* |amount| of a record
Magnitude(r) == IF NumberOf(r.Amount) < 0 THEN 0 - NumberOf(r.Amount) ELSE NumberOf(r.Amount)

\* the sum of |amount| over the records of a list that have one of the categories
RECURSIVE SumOver(_, _)
SumOver(list, categories) ==
    IF list = << >> THEN 0
    ELSE (IF Head(list).Category \in categories THEN Magnitude(Head(list)) ELSE 0)
         + SumOver(Tail(list), categories)

RECURSIVE SumOfNumbers(_)
SumOfNumbers(values) ==
    IF values = << >> THEN 0 ELSE Head(values).n + SumOfNumbers(Tail(values))

\* C15: for a non-empty list, processData returns as many labels as the list
\* has distinct non-empty categories, each total is the sum of |amount| of
\* the records of its category, and the totals add up to the sum of |amount|
\* over the records that have a category and an amount.
C15_TotalsPerCategory ==
    tableData # << >> =>
        LET out == processData(Given(tableData))
        IN  /\ Len(out.labels) = Cardinality(Categories(tableData))
            /\ \A i \in 1..Len(out.data) :
                   out.data[i] = Num(SumOver(tableData, {out.labels[i]}))
            /\ SumOfNumbers(out.data) = SumOver(tableData, Categories(tableData))

\* the distinct non-empty categories of a list in the order of their first
\* occurrence
RECURSIVE FirstSeen(_, _)
FirstSeen(list, seen) ==
    IF list = << >> THEN << >>
    ELSE IF Head(list).Category \in seen \cup {Empty}
         THEN FirstSeen(Tail(list), seen)
         ELSE <<Head(list).Category>> \o FirstSeen(Tail(list), seen \cup {Head(list).Category})

\* C16: processData returns three sequences of one length, the labels in the
\* order in which the categories are first seen in the list, whatever the
\* category strings are, data[i] the total of labels[i] and colors[i] the
\* palette's colour at i mod N; for an empty or absent list it returns three
\* empty sequences.
C16_LabelsInFirstSeenOrder ==
    /\ tableData # << >> =>
           LET out == processData(Given(tableData))
           IN  /\ Len(out.labels) = Len(out.data)
               /\ Len(out.labels) = Len(out.colors)
               /\ out.labels = FirstSeen(tableData, {})
               /\ \A i \in 1..Len(out.data) :
                      out.data[i] = Num(SumOver(tableData, {out.labels[i]}))
               /\ \A i \in 1..Len(out.colors) :
                      out.colors[i] = COLORS[((i - 1) % Len(COLORS)) + 1]
    /\ processData(Given(<< >>)) = EmptyResult
    /\ processData(NotGiven) = EmptyResult

\* C17: after every mutation of the store (load, add, upload, sort, delete)
\* the chart's labels, totals and colours are processData of the list the
\* table renders from; in particular the chart shows no categories when the
\* store has become empty.
C17_ChartFollowsStore ==
    chartData = ChartData(processData(Given(tableData)))

\* C18: the gauge's limit starts at 1200 and is never negative: only the
\* limit input changes it, and every input v sets it to max(0, v).
C18_LimitNeverNegative ==
    /\ limit = 1200
    /\ [](limit >= 0)
    /\ [][/\ limit' # limit => lastPoll'.op = "setLimit"
          /\ lastPoll'.op = "setLimit" =>
                 LET v == ToNumber(lastPoll'.value)
                 IN  limit' = IF v >= 0 THEN v ELSE 0]_vars

C18_Witness ==
    /\ lastPoll.op = "setLimit"
    /\ ToNumber(lastPoll.value) < 0
    /\ limit = 0

\* the sum of |amount| over the records of a list whose amount is negative
RECURSIVE NegativeTotal(_)
NegativeTotal(list) ==
    IF list = << >> THEN 0
    ELSE (IF NumberOf(Head(list).Amount) < 0 THEN Magnitude(Head(list)) ELSE 0)
         + NegativeTotal(Tail(list))

\* C19: a poll whose fetch succeeded sets spent to the sum of |amount| over
\* the fetched records with a negative amount, so spent >= 0; a poll whose
\* fetch failed leaves spent as it was; either way loading is false.
C19_PollSetsSpent ==
    /\ spent >= 0
    /\ lastPoll.op = "poll" =>
           /\ loading = FALSE
           /\ lastPoll.poll.stage = "ok" => spent = NegativeTotal(lastPoll.poll.data)
           /\ lastPoll.poll.stage # "ok" => spent = lastPoll.spent

C19_Witness ==
    /\ lastPoll.op = "poll"
    /\ lastPoll.poll.stage = "ok"
    /\ \E i, j \in 1..Len(lastPoll.poll.data) :
           /\ NumberOf(lastPoll.poll.data[i].Amount) < 0
           /\ NumberOf(lastPoll.poll.data[j].Amount) > 0
    /\ spent > 0
    /\ spent # lastPoll.spent

\* the smaller of two numbers
Min(a, b) == IF a <= b THEN a ELSE b

\* C20: for spent >= 0 and limit > 0 the percentage is
\* min(spent / limit * 100, 100), and the colour is red from 90 up, orange
\* from 75 up to 90 and green below; limit 1200 and spent 300 give 25 and
\* green, limit 1200 and spent 1100 give red.
C20_PercentageAndColor ==
    /\ (limit > 0 /\ spent >= 0) =>
           LET p      == Percentage(spent, limit)
               capped == Min(spent * 100, 100 * limit)
           IN  /\ p.d > 0
               /\ p.n * limit = capped * p.d
               /\ GetColor(p) = IF capped >= 90 * limit THEN "#ef4444"
                                ELSE IF capped >= 75 * limit THEN "#f97316"
                                ELSE "#22c55e"
    /\ LET p == Percentage(300, 1200)
       IN  p.d > 0 /\ p.n = 25 * p.d /\ GetColor(p) = "#22c55e"
    /\ GetColor(Percentage(1100, 1200)) = "#ef4444"

C20_Witness ==
    /\ lastPoll.op = "poll"
    /\ limit > 0
    /\ spent > 0
    /\ GetColor(Percentage(spent, limit)) = "#f97316"

\* C21: the gauge issues one fetch at mount and then one per tick; once it is
\* unmounted its timer is cleared and no further fetch is started.
C21_NoPollAfterUnmount ==
    /\ mounted = TRUE
    /\ polls = <<Poll>>
    /\ [](mounted = FALSE => interval = "cleared")
    /\ [][/\ mounted = FALSE => mounted' = FALSE
          /\ Len(polls') > Len(polls) =>
                 /\ mounted = TRUE
                 /\ interval = "running"
                 /\ polls' = Append(polls, Poll)]_vars

C21_Witness ==
    /\ ~mounted
    /\ lastPoll.op = "unmounted"
    /\ interval = "cleared"

\* C27: whatever the order in which the responses arrive, spent is never set
\* from a fetch that was started before a fetch whose result has already
\* been applied.
C27_NoOlderPollApplied ==
    (lastPoll.op = "poll" /\ lastPoll.poll.stage = "ok") => ~lastPoll.poll.overtaken

\* C28: in every state of the gauge, limit = 0 included, the percentage is a
\* number from 0 to 100 and the colour is red, orange or green.
C28_PercentageDefined ==
    LET p == Percentage(spent, limit)
    IN  /\ p.d > 0
        /\ 0 <= p.n
        /\ p.n <= 100 * p.d
        /\ GetColor(p) \in {"#ef4444", "#f97316", "#22c55e"}

\* C30: whatever the store holds, records without a description included,
\* filterData under a non-empty search term does not raise, and its rows are
\* the records that match, those without a description left out.
C30_SearchNeverRaises ==
    searchTerm # Empty =>
        LET out == FilterOutcome(tableData, searchTerm, dateRange)
        IN  /\ ~out.raised
            /\ out.rows = SelectSeq(tableData, LAMBDA r :
                              /\ r.Description # NoText
                              /\ ContainsIgnoringCase(r.Description, searchTerm))

\* C26: whenever a header shows the sort indicator of a column and a
\* direction, the Transaction Store is ordered by that column in that
\* direction.
C26_IndicatorMeansOrdered ==
    sortConfig.key # "null" =>
        \A j \in 1..(Len(tableData) - 1) :
            IF sortConfig.direction = "asc"
            THEN ColumnLeq(sortConfig.key, tableData[j], tableData[j + 1])
            ELSE ColumnLeq(sortConfig.key, tableData[j + 1], tableData[j])

\* how often the list holds the record, in the form typed or the form stored
CountStored(q, x) == Cardinality({i \in 1..Len(q) : Stored(q[i]) = Stored(x)})

\* C25: a record that a confirmed add (or upload) appended to the Transaction
\* Store stays there until a delete removes it: no load response, however
\* late it arrives, takes a record out of the store.
C25_LoadKeepsConfirmedRecords ==
    last.op = "fetchData" =>
        \A i \in 1..Len(last.data) :
            CountStored(tableData, last.data[i]) >= CountStored(last.data, last.data[i])

\* C24: when deletes are in flight at once, then after all the responses
\* have been applied, in whatever order the backend served the requests and
\* the responses arrived, the Transaction Store is the backend's list.
C24_ConcurrentDeletesConverge ==
    (inflight = << >> /\ last.op = "handleDeleteTransaction") => tableData = backend

\* C22: generateResponse returns the service's text when the call succeeded
\* and a string starting with "Error:" when it failed, and the chat panel
\* shows the reply as type bot exactly when the call succeeded and as type
\* error exactly when it failed.
C22_ReplyTypeFollowsOutcome ==
    lastChat.op = "reply" =>
        LET reply == messages[Len(messages)]
        IN  /\ lastChat.call.stage = "ok" =>
                   reply.content = lastChat.call.text /\ reply.type = "bot"
            /\ lastChat.call.stage = "error" =>
                   /\ SubSeq(reply.content, 1, 6) = <<69, 114, 114, 111, 114, 58>>
                   /\ reply.type = "error"

\* the string is empty or holds white space only
Blank(s) == \A i \in 1..Len(s) : s[i] \in {9, 10, 13, 32}

\* C29: a submit of an empty or white-space input sends no request and adds
\* no message; any other submit appends one user message at once and its
\* call later appends one reply (bot or error) after it; the message list
\* only grows at its end; and isLoading, true from the submit on, returns to
\* false whether the call succeeds or fails.
C29_ChatExchange ==
    /\ [](/\ \A i \in 1..Len(messages) :
                 IF i % 2 = 1 THEN messages[i].type = "user"
                              ELSE messages[i].type \in {"bot", "error"}
          /\ isLoading = (Len(messages) % 2 = 1)
          /\ isLoading = (chatCall.stage # "none"))
    /\ [][/\ Len(messages') >= Len(messages)
          /\ SubSeq(messages', 1, Len(messages)) = messages
          /\ lastChat'.op = "handleSubmit" =>
                 IF Blank(input)
                 THEN messages' = messages /\ chatCall' = chatCall /\ isLoading' = isLoading
                 ELSE /\ messages' = Append(messages, [type |-> "user", content |-> input])
                      /\ chatCall.stage = "none" /\ chatCall'.stage = "sent"
                      /\ isLoading' = TRUE
          /\ lastChat'.op = "reply" =>
                 /\ Len(messages') = Len(messages) + 1
                 /\ isLoading' = FALSE]_vars
    /\ (isLoading = TRUE) ~> (isLoading = FALSE)

C29_Witness ==
    /\ lastChat.op = "reply"
    /\ lastChat.call.stage = "error"
    /\ Len(messages) = 4
    /\ messages[2].type = "bot"
    /\ Blank(input) /\ input # << >>

\* C23: every fetch, add, delete or upload call that fails, by the transport
\* or by the backend's report, ends in a message to the user, and no outcome
\* that is not applied to the store, a status other than 200 included, passes
\* without a message or a log.
C23_FailuresAreReported ==
    (last.call.kind \in {"get", "add", "delete", "upload"} /\ last.call.stage # "sent") =>
        /\ last.call.stage = "error" => last.reported
        /\ ~(last.call.stage = "ok" /\ last.call.status = 200) =>
               last.reported \/ last.logged

====
